---- MODULE Spec2Model ----
(***************************************************************************)
(* Model of neurodsp/filt.py: FIR / IIR filter design, validation of the   *)
(* frequency response and application of the filter to a signal with NaN   *)
(* gaps.  Every Python function is an operator that returns a record       *)
(*   [err |-> "ok" or the error raised, ..., log |-> events in order]      *)
(* and every action applies one public function to the pending request.    *)
(***************************************************************************)
EXTENDS Integers, Sequences, FiniteSets

VARIABLES
    req,    \* the arguments of the pending call
    db,     \* the dB curve the frequency response yields for the designed filter
    pc,     \* "call" before the function is applied, "done" after
    fn,     \* the function that was applied ("" before)
    ret     \* what the function returned or raised

vars == <<req, db, pc, fn, ret>>

----------------------------------------------------------------------------
(* Bounds of the explored input space *)

MaxSigLen == 8
MaxFreq == 3
MaxFcLen == 3
MaxCycles == 2
MaxSecNum == 2
MaxSecDen == 2
MaxOrder == 1
DbLen == 4

(* transitions=(-20, -3), the default of check_filter_properties *)
TransLow == -20
TransHigh == -3

----------------------------------------------------------------------------
(* Python values *)

None == <<>>
Some(v) == <<v>>

Number(f) == [kind |-> "number", v |-> <<f>>]
Tuple(s) == [kind |-> "tuple", v |-> s]
List(s) == [kind |-> "list", v |-> s]

NaN == [nan |-> TRUE, val |-> 0]
Fin(v) == [nan |-> FALSE, val |-> v]
isnan(x) == x.nan

(* IEEE arithmetic on samples: NaN is absorbing *)
Add(a, b) == IF a.nan \/ b.nan THEN NaN ELSE Fin(a.val + b.val)
Mul(a, b) == IF a.nan \/ b.nan THEN NaN ELSE Fin(a.val * b.val)

Min(a, b) == IF a < b THEN a ELSE b
Max(a, b) == IF a > b THEN a ELSE b

(* ceil(a / b) for b > 0 *)
Ceil(a, b) == -((-a) \div b)

----------------------------------------------------------------------------
(* check_filter_definition(pass_type, fc) *)

check_filter_definition(pass_type, fc) ==
    IF pass_type \notin {"bandpass", "bandstop", "lowpass", "highpass"}
    THEN [err |-> "InvalidFilterDefinition", f_lo |-> None, f_hi |-> None]
    ELSE IF pass_type \in {"bandpass", "bandstop"}
    THEN IF fc.kind = "tuple" /\ Len(fc.v) < 2
         THEN [err |-> "IndexError", f_lo |-> None, f_hi |-> None]
         ELSE IF fc.kind = "tuple" /\ fc.v[1] >= fc.v[2]
         THEN [err |-> "InvalidFilterDefinition", f_lo |-> None, f_hi |-> None]
         ELSE IF fc.kind = "number" \/ Len(fc.v) # 2
         THEN [err |-> "InvalidFilterDefinition", f_lo |-> None, f_hi |-> None]
         ELSE [err |-> "ok", f_lo |-> Some(fc.v[1]), f_hi |-> Some(fc.v[2])]
    ELSE IF pass_type = "lowpass"
    THEN IF fc.kind = "number"
         THEN [err |-> "ok", f_lo |-> None, f_hi |-> Some(fc.v[1])]
         ELSE IF fc.kind = "tuple"
         THEN IF Len(fc.v) < 2
              THEN [err |-> "IndexError", f_lo |-> None, f_hi |-> None]
              ELSE [err |-> "ok", f_lo |-> None, f_hi |-> Some(fc.v[2])]
         ELSE [err |-> "UnboundLocalError", f_lo |-> None, f_hi |-> None]
    ELSE IF fc.kind = "number"
         THEN [err |-> "ok", f_lo |-> Some(fc.v[1]), f_hi |-> None]
         ELSE IF fc.kind = "tuple"
         THEN IF Len(fc.v) < 1
              THEN [err |-> "IndexError", f_lo |-> None, f_hi |-> None]
              ELSE [err |-> "ok", f_lo |-> Some(fc.v[1]), f_hi |-> None]
         ELSE [err |-> "UnboundLocalError", f_lo |-> None, f_hi |-> None]

----------------------------------------------------------------------------
(* _fir_checks(pass_type, f_lo, f_hi, n_cycles, n_seconds, fs, sig_length)  *)
(* n_seconds is None or Some([num, den]), the duration num/den in seconds;  *)
(* cutoffs are positive, so the division by the reference cutoff is defined *)

(* mutant of ForceOdd: the length is left as computed *)
ForceOddNever(filt_len) == filt_len

ForceOdd(filt_len) == IF filt_len % 2 = 0 THEN filt_len + 1 ELSE filt_len

FirLength(pass_type, f_lo, f_hi, n_cycles, n_seconds, fs) ==
    IF n_seconds # None
    THEN Ceil(fs * n_seconds[1].num, n_seconds[1].den)
    ELSE IF pass_type = "lowpass"
         THEN Ceil(fs * n_cycles, f_hi[1])
         ELSE Ceil(fs * n_cycles, f_lo[1])

(* mutant of _fir_checks: a filter as long as the signal is let through *)
_fir_checks_strict(pass_type, f_lo, f_hi, n_cycles, n_seconds, fs, sig_length) ==
    LET filt_len == ForceOdd(FirLength(pass_type, f_lo, f_hi, n_cycles, n_seconds, fs))
    IN  IF filt_len > sig_length
        THEN [err |-> "FilterTooLong", filt_len |-> filt_len]
        ELSE [err |-> "ok", filt_len |-> filt_len]

_fir_checks(pass_type, f_lo, f_hi, n_cycles, n_seconds, fs, sig_length) ==
    LET filt_len == ForceOdd(FirLength(pass_type, f_lo, f_hi, n_cycles, n_seconds, fs))
    IN  IF filt_len >= sig_length
        THEN [err |-> "FilterTooLong", filt_len |-> filt_len]
        ELSE [err |-> "ok", filt_len |-> filt_len]

compute_nyquist(fs) == [num |-> fs, den |-> 2]

(* scipy.signal.firwin(numtaps, cutoff, nyq=f_nyq): rejects a cutoff that is  *)
(* not strictly between 0 and nyq, else returns numtaps symmetric taps       *)
(* (here a triangular window; no claim reads the tap values).                *)
firwin(numtaps, cutoff, f_nyq) ==
    IF \E i \in 1..Len(cutoff) : cutoff[i] <= 0 \/ cutoff[i] * f_nyq.den >= f_nyq.num
    THEN [err |-> "firwin.ValueError", kernel |-> <<>>]
    ELSE [err |-> "ok",
          kernel |-> [i \in 1..numtaps |-> Fin(Min(i, numtaps + 1 - i))]]

(* design_fir_filter(pass_type, fc, n_cycles, n_seconds, fs, sig_length) *)
design_fir_filter(pass_type, fc, n_cycles, n_seconds, fs, sig_length) ==
    LET d == check_filter_definition(pass_type, fc)
        c == _fir_checks(pass_type, d.f_lo, d.f_hi, n_cycles, n_seconds, fs, sig_length)
        cutoff == IF pass_type \in {"bandpass", "bandstop"} THEN d.f_lo \o d.f_hi
                  ELSE IF pass_type = "highpass" THEN d.f_lo ELSE d.f_hi
        k == firwin(c.filt_len, cutoff, compute_nyquist(fs))
    IN  IF d.err # "ok"
        THEN [err |-> d.err, kernel |-> <<>>, log |-> <<"check_filter_definition">>]
        ELSE IF c.err # "ok"
        THEN [err |-> c.err, kernel |-> <<>>,
              log |-> <<"check_filter_definition", "_fir_checks">>]
        ELSE [err |-> k.err, kernel |-> k.kernel,
              log |-> <<"check_filter_definition", "_fir_checks", "firwin">>]

(* scipy.signal.butter(N, Wn, btype): rejects a critical frequency outside   *)
(* 0 < Wn < 1, else returns numerator and denominator of equal length:       *)
(* N + 1 for low/highpass, 2N + 1 for band filters; N = None is a TypeError. *)
butter(order, win, btype) ==
    IF order = None
    THEN [err |-> "butter.TypeError", ncoef |-> 0]
    ELSE IF \E i \in 1..Len(win) : win[i].num <= 0 \/ win[i].num >= win[i].den
    THEN [err |-> "butter.ValueError", ncoef |-> 0]
    ELSE [err |-> "ok",
          ncoef |-> IF btype \in {"bandpass", "bandstop"}
                    THEN 2 * order[1] + 1 ELSE order[1] + 1]

(* design_iir_filter(pass_type, fc, butterworth_order, fs) *)
design_iir_filter(pass_type, fc, butterworth_order, fs) ==
    LET warned == IF pass_type # "bandstop" THEN <<"warn:iir_not_recommended">> ELSE <<>>
        d == check_filter_definition(pass_type, fc)
        f_nyq == compute_nyquist(fs)
        Norm(f) == [num |-> f * f_nyq.den, den |-> f_nyq.num]
        win == IF pass_type \in {"bandpass", "bandstop"}
               THEN <<Norm(d.f_lo[1]), Norm(d.f_hi[1])>>
               ELSE IF pass_type = "highpass" THEN <<Norm(d.f_lo[1])>>
               ELSE <<Norm(d.f_hi[1])>>
        k == butter(butterworth_order, win, pass_type)
    IN  IF d.err # "ok"
        THEN [err |-> d.err, ncoef |-> 0,
              log |-> warned \o <<"check_filter_definition">>]
        ELSE [err |-> k.err, ncoef |-> k.ncoef,
              log |-> warned \o <<"check_filter_definition", "butter">>]

----------------------------------------------------------------------------
(* Frequency response and its validation.  The response has DbLen points;   *)
(* frequencies and bandwidths are kept in units of 1/(2*DbLen) Hz so that   *)
(* f_db[i] = i * fs / (2*DbLen) stays an integer.                           *)

FreqUnit == 2 * DbLen

(* compute_frequency_response(b_vals, a_vals, fs): freqz of the coefficients *)
compute_frequency_response(curve, fs) ==
    [f_db |-> [i \in 1..Len(curve) |-> (i - 1) * fs], db |-> curve]

(* compute_pass_band(pass_type, fc, fs) *)
compute_pass_band(pass_type, fc, fs) ==
    LET d == check_filter_definition(pass_type, fc)
    IN  IF pass_type \in {"bandpass", "bandstop"}
        THEN (d.f_hi[1] - d.f_lo[1]) * FreqUnit
        ELSE IF pass_type = "highpass"
        THEN (compute_nyquist(fs).num * FreqUnit) \div compute_nyquist(fs).den
                 - d.f_lo[1] * FreqUnit
        ELSE d.f_hi[1] * FreqUnit

RECURSIVE SortedSeq(_)
SortedSeq(S) ==
    IF S = {} THEN <<>>
    ELSE LET m == CHOOSE x \in S : \A y \in S : x <= y
         IN  <<m>> \o SortedSeq(S \ {m})

SetMax(S) == CHOOSE x \in S : \A y \in S : y <= x
SetMin(S) == CHOOSE x \in S : \A y \in S : x <= y

(* np.where(np.diff(np.logical_and(db > low, db < high)))[0], 1-based *)
TransitionInds(curve, low, high) ==
    LET mask == [i \in 1..Len(curve) |-> curve[i] > low /\ curve[i] < high]
    IN  SortedSeq({i \in 1..(Len(curve) - 1) : mask[i] # mask[i + 1]})

(* compute_transition_band(f_db, db, low, high): np.max of an empty list raises *)
compute_transition_band(f_db, curve, low, high) ==
    LET inds == TransitionInds(curve, low, high)
        npairs == Len(inds) \div 2
        spans == {f_db[inds[2 * j]] - f_db[inds[2 * j - 1]] : j \in 1..npairs}
    IN  IF npairs = 0
        THEN [err |-> "max.ValueError", trans_band |-> 0]
        ELSE [err |-> "ok", trans_band |-> SetMax(spans)]

(* mutant of check_filter_properties: the attenuation advisory does not return *)
check_filter_properties_no_return(curve, fs, pass_type, fc) ==
    LET d == check_filter_definition(pass_type, fc)
        r == compute_frequency_response(curve, fs)
        mindb == SetMin({r.db[i] : i \in 1..Len(r.db)})
        attenuation == IF mindb >= TransLow THEN <<"warn:attenuation">> ELSE <<>>
        stopband == IF pass_type = "bandpass"
                       /\ (r.db[1] >= TransLow \/ r.db[Len(r.db)] >= TransLow)
                    THEN <<"warn:stopband">> ELSE <<>>
        pass_bw == compute_pass_band(pass_type, fc, fs)
        t == compute_transition_band(r.f_db, r.db, TransLow, TransHigh)
        toowide == IF t.trans_band > pass_bw THEN <<"warn:transition_bw">> ELSE <<>>
    IN  IF d.err # "ok"
        THEN [err |-> d.err, log |-> <<>>]
        ELSE IF t.err # "ok"
        THEN [err |-> t.err, log |-> attenuation \o stopband]
        ELSE [err |-> "ok",
              log |-> attenuation \o stopband \o toowide
                         \o <<"print:transition_bw", "print:pass_bw">>,
              transition_bw |-> t.trans_band, pass_bw |-> pass_bw]

(* check_filter_properties(b_vals, a_vals, fs, pass_type, fc, transitions) *)
check_filter_properties(curve, fs, pass_type, fc) ==
    LET d == check_filter_definition(pass_type, fc)
        r == compute_frequency_response(curve, fs)
        mindb == SetMin({r.db[i] : i \in 1..Len(r.db)})
        stopband == IF pass_type = "bandpass"
                       /\ (r.db[1] >= TransLow \/ r.db[Len(r.db)] >= TransLow)
                    THEN <<"warn:stopband">> ELSE <<>>
        pass_bw == compute_pass_band(pass_type, fc, fs)
        t == compute_transition_band(r.f_db, r.db, TransLow, TransHigh)
        toowide == IF t.trans_band > pass_bw THEN <<"warn:transition_bw">> ELSE <<>>
    IN  IF d.err # "ok"
        THEN [err |-> d.err, log |-> <<>>]
        ELSE IF mindb >= TransLow
        THEN [err |-> "ok", log |-> <<"warn:attenuation">>]
        ELSE IF t.err # "ok"
        THEN [err |-> t.err, log |-> stopband]
        ELSE [err |-> "ok",
              log |-> stopband \o toowide \o <<"print:transition_bw", "print:pass_bw">>,
              transition_bw |-> t.trans_band, pass_bw |-> pass_bw]

----------------------------------------------------------------------------
(* Applying the filter *)

SelectIdx(sig, keep) == SortedSeq({i \in 1..Len(sig) : keep[i]})

(* _remove_nans(sig) *)
_remove_nans(sig) ==
    LET sig_nans == [i \in 1..Len(sig) |-> isnan(sig[i])]
        idx == SelectIdx(sig, [i \in 1..Len(sig) |-> ~sig_nans[i]])
    IN  [sig_removed |-> [j \in 1..Len(idx) |-> sig[idx[j]]], sig_nans |-> sig_nans]

(* mutant of _restore_nans: the output starts as zeros instead of NaN *)
_restore_nans_zeros(sig, sig_nans) ==
    LET idx == SortedSeq({i \in 1..Len(sig_nans) : ~sig_nans[i]})
        Rank(i) == CHOOSE j \in 1..Len(idx) : idx[j] = i
    IN  IF Len(sig) = Len(idx)
        THEN [err |-> "ok",
              sig_restored |-> [i \in 1..Len(sig_nans) |->
                                   IF sig_nans[i] THEN Fin(0) ELSE sig[Rank(i)]]]
        ELSE [err |-> "restore.ValueError", sig_restored |-> <<>>]

(* _restore_nans(sig, sig_nans): the masked assignment needs as many values  *)
(* as the mask has True entries (a single value is broadcast)                *)
_restore_nans(sig, sig_nans) ==
    LET idx == SortedSeq({i \in 1..Len(sig_nans) : ~sig_nans[i]})
        Rank(i) == CHOOSE j \in 1..Len(idx) : idx[j] = i
    IN  IF Len(sig) = Len(idx)
        THEN [err |-> "ok",
              sig_restored |-> [i \in 1..Len(sig_nans) |->
                                   IF sig_nans[i] THEN NaN ELSE sig[Rank(i)]]]
        ELSE IF Len(sig) = 1
        THEN [err |-> "ok",
              sig_restored |-> [i \in 1..Len(sig_nans) |->
                                   IF sig_nans[i] THEN NaN ELSE sig[1]]]
        ELSE [err |-> "restore.ValueError", sig_restored |-> <<>>]

(* mutant of _drop_edge_artifacts: half the length rounded down *)
_drop_edge_artifacts_floor(sig, filt_len) ==
    LET n_rmv == filt_len \div 2
    IN  [i \in 1..Len(sig) |->
            IF i <= n_rmv \/ n_rmv = 0 \/ i > Len(sig) - n_rmv THEN NaN ELSE sig[i]]

(* _drop_edge_artifacts(sig, filt_len): sig[:n_rmv] and sig[-n_rmv:] set to NaN *)
_drop_edge_artifacts(sig, filt_len) ==
    LET n_rmv == Ceil(filt_len, 2)
    IN  [i \in 1..Len(sig) |->
            IF i <= n_rmv \/ n_rmv = 0 \/ i > Len(sig) - n_rmv THEN NaN ELSE sig[i]]

RECURSIVE SumProducts(_, _, _, _)
(* sum of a[i] * v[k - i + 1] over the i in 1..n for which v has that index *)
SumProducts(a, v, k, n) ==
    IF n = 0 THEN Fin(0)
    ELSE LET rest == SumProducts(a, v, k, n - 1)
         IN  IF k - n + 1 >= 1 /\ k - n + 1 <= Len(v)
             THEN Add(rest, Mul(a[n], v[k - n + 1]))
             ELSE rest

(* np.convolve(a, v, 'same'): the max(M, N) central samples of the full      *)
(* convolution, starting (min(M, N) - 1) // 2 samples in; empty input raises *)
convolve_same(a, v) ==
    LET start == (Min(Len(a), Len(v)) - 1) \div 2
    IN  IF Len(a) = 0 \/ Len(v) = 0
        THEN [err |-> "convolve.ValueError", out |-> <<>>]
        ELSE [err |-> "ok",
              out |-> [t \in 1..Max(Len(a), Len(v)) |->
                          SumProducts(a, v, start + t, Len(a))]]

RECURSIVE RunningSum(_, _)
RunningSum(x, n) == IF n = 0 THEN Fin(0) ELSE Add(RunningSum(x, n - 1), x[n])

Reverse(x) == [i \in 1..Len(x) |-> x[Len(x) + 1 - i]]

(* scipy.signal.filtfilt(b, a, x): needs len(x) > padlen = 3 * max(len(a),   *)
(* len(b)); applies a recursion forwards, then backwards (here the one-pole  *)
(* recursion y[n] = x[n] + y[n-1]; no claim reads the sample values).        *)
filtfilt(ncoef, x) ==
    LET fwd == [n \in 1..Len(x) |-> RunningSum(x, n)]
        bwd == [n \in 1..Len(x) |-> RunningSum(Reverse(fwd), n)]
    IN  IF Len(x) <= 3 * ncoef
        THEN [err |-> "filtfilt.ValueError", out |-> <<>>]
        ELSE [err |-> "ok", out |-> Reverse(bwd)]

(* mutant of filter_signal_fir: the edges are dropped after the NaN gaps are *)
(* restored, on the full-length output                                       *)
filter_signal_fir_edges_last(r, curve) ==
    LET k == design_fir_filter(r.pass_type, r.fc, r.n_cycles, r.n_seconds, r.fs, Len(r.sig))
        p == IF r.compute_transition_band
             THEN check_filter_properties(curve, r.fs, r.pass_type, r.fc)
             ELSE [err |-> "ok", log |-> <<>>]
        s == _remove_nans(r.sig)
        c == convolve_same(k.kernel, s.sig_removed)
        n == _restore_nans(c.out, s.sig_nans)
        e == IF r.remove_edge_artifacts
             THEN _drop_edge_artifacts(n.sig_restored, Len(k.kernel))
             ELSE n.sig_restored
        plot == IF r.plot_freq_response THEN <<"plot_frequency_response">> ELSE <<>>
        Fail(e0, lg) == [err |-> e0, sig_filt |-> <<>>, kernel |-> None, log |-> lg]
    IN  IF k.err # "ok" THEN Fail(k.err, k.log)
        ELSE IF p.err # "ok" THEN Fail(p.err, k.log \o p.log)
        ELSE IF c.err # "ok" THEN Fail(c.err, k.log \o p.log \o <<"convolve">>)
        ELSE IF n.err # "ok" THEN Fail(n.err, k.log \o p.log \o <<"convolve">>)
        ELSE [err |-> "ok", sig_filt |-> e,
              kernel |-> IF r.return_kernel THEN Some(k.kernel) ELSE None,
              log |-> k.log \o p.log \o <<"convolve">> \o plot]

(* filter_signal_fir(sig, fs, pass_type, fc, n_cycles, n_seconds,             *)
(*   plot_freq_response, return_kernel, compute_transition_band,              *)
(*   remove_edge_artifacts); curve is the response freqz yields               *)
filter_signal_fir(r, curve) ==
    LET k == design_fir_filter(r.pass_type, r.fc, r.n_cycles, r.n_seconds, r.fs, Len(r.sig))
        p == IF r.compute_transition_band
             THEN check_filter_properties(curve, r.fs, r.pass_type, r.fc)
             ELSE [err |-> "ok", log |-> <<>>]
        s == _remove_nans(r.sig)
        c == convolve_same(k.kernel, s.sig_removed)
        e == IF r.remove_edge_artifacts
             THEN _drop_edge_artifacts(c.out, Len(k.kernel))
             ELSE c.out
        n == _restore_nans(e, s.sig_nans)
        plot == IF r.plot_freq_response THEN <<"plot_frequency_response">> ELSE <<>>
        Fail(e0, lg) == [err |-> e0, sig_filt |-> <<>>, kernel |-> None, log |-> lg]
    IN  IF k.err # "ok" THEN Fail(k.err, k.log)
        ELSE IF p.err # "ok" THEN Fail(p.err, k.log \o p.log)
        ELSE IF c.err # "ok" THEN Fail(c.err, k.log \o p.log \o <<"convolve">>)
        ELSE IF n.err # "ok" THEN Fail(n.err, k.log \o p.log \o <<"convolve">>)
        ELSE [err |-> "ok", sig_filt |-> n.sig_restored,
              kernel |-> IF r.return_kernel THEN Some(k.kernel) ELSE None,
              log |-> k.log \o p.log \o <<"convolve">> \o plot]

(* filter_signal_iir(sig, fs, pass_type, fc, butterworth_order,               *)
(*   plot_freq_response, return_kernel, compute_transition_band)              *)
filter_signal_iir(r, curve) ==
    LET k == design_iir_filter(r.pass_type, r.fc, r.butterworth_order, r.fs)
        p == IF r.compute_transition_band
             THEN check_filter_properties(curve, r.fs, r.pass_type, r.fc)
             ELSE [err |-> "ok", log |-> <<>>]
        s == _remove_nans(r.sig)
        c == filtfilt(k.ncoef, s.sig_removed)
        n == _restore_nans(c.out, s.sig_nans)
        plot == IF r.plot_freq_response THEN <<"plot_frequency_response">> ELSE <<>>
        Fail(e0, lg) == [err |-> e0, sig_filt |-> <<>>, kernel |-> None, log |-> lg]
    IN  IF k.err # "ok" THEN Fail(k.err, k.log)
        ELSE IF p.err # "ok" THEN Fail(p.err, k.log \o p.log)
        ELSE IF c.err # "ok" THEN Fail(c.err, k.log \o p.log \o <<"filtfilt">>)
        ELSE IF n.err # "ok" THEN Fail(n.err, k.log \o p.log \o <<"filtfilt">>)
        ELSE [err |-> "ok", sig_filt |-> n.sig_restored,
              kernel |-> IF r.return_kernel THEN Some(k.ncoef) ELSE None,
              log |-> k.log \o p.log \o <<"filtfilt">> \o plot]

(* mutant of _iir_checks: the order is checked before the duration *)
_iir_checks_order_first(n_seconds, butterworth_order, remove_edge_artifacts) ==
    LET warned == IF remove_edge_artifacts THEN <<"warn:edge_artifacts">> ELSE <<>>
    IN  IF butterworth_order = None THEN [err |-> "MissingOrder", log |-> warned]
        ELSE IF n_seconds # None THEN [err |-> "IncompatibleOption", log |-> warned]
        ELSE [err |-> "ok", log |-> warned]

(* _iir_checks(n_seconds, butterworth_order, remove_edge_artifacts) *)
_iir_checks(n_seconds, butterworth_order, remove_edge_artifacts) ==
    LET warned == IF remove_edge_artifacts THEN <<"warn:edge_artifacts">> ELSE <<>>
    IN  IF n_seconds # None THEN [err |-> "IncompatibleOption", log |-> warned]
        ELSE IF butterworth_order = None THEN [err |-> "MissingOrder", log |-> warned]
        ELSE [err |-> "ok", log |-> warned]

(* filter_signal(sig, fs, pass_type, fc, ...) *)
filter_signal(r, curve) ==
    LET c == _iir_checks(r.n_seconds, r.butterworth_order, r.remove_edge_artifacts)
        f == filter_signal_iir(r, curve)
    IN  IF r.iir
        THEN IF c.err # "ok"
             THEN [err |-> c.err, sig_filt |-> <<>>, kernel |-> None, log |-> c.log]
             ELSE [f EXCEPT !.log = c.log \o f.log]
        ELSE filter_signal_fir(r, curve)

----------------------------------------------------------------------------
(* Memory.  Arrays live in buffers; h maps the buffers in use to their      *)
(* contents.  "sig" is the caller's array; each function below states which *)
(* buffer it writes: a fresh one, or (in place) the one it was handed.      *)

Store(h, b, x) == [k \in DOMAIN h \cup {b} |-> IF k = b THEN x ELSE h[k]]

(* mutant of _remove_nans_memory: the gaps are zeroed in place before the copy *)
_remove_nans_memory_inplace(h, a) ==
    Store(Store(h, a, [i \in 1..Len(h[a]) |-> IF isnan(h[a][i]) THEN Fin(0) ELSE h[a][i]]),
          "sig_removed", _remove_nans(h[a]).sig_removed)

(* _remove_nans: sig[np.where(~np.isnan(sig))] is an index-array selection, a copy *)
_remove_nans_memory(h, a) == Store(h, "sig_removed", _remove_nans(h[a]).sig_removed)

(* np.convolve allocates its output *)
convolve_memory(h, kernel, a) == Store(h, "sig_filt", convolve_same(kernel, h[a]).out)

(* signal.filtfilt allocates its output *)
filtfilt_memory(h, ncoef, a) == Store(h, "sig_filt", filtfilt(ncoef, h[a]).out)

(* _drop_edge_artifacts assigns sig[:n_rmv] and sig[-n_rmv:] in the array it is given *)
_drop_edge_artifacts_memory(h, a, filt_len) ==
    Store(h, a, _drop_edge_artifacts(h[a], filt_len))

(* _restore_nans fills a new array, np.ones(len(sig_nans)) * np.nan *)
_restore_nans_memory(h, a, sig_nans) ==
    Store(h, "sig_restored", _restore_nans(h[a], sig_nans).sig_restored)

(* the buffers when filter_signal_fir returns or raises *)
filter_signal_fir_memory(r, curve) ==
    LET h0 == [b \in {"sig"} |-> r.sig]
        k == design_fir_filter(r.pass_type, r.fc, r.n_cycles, r.n_seconds, r.fs, Len(r.sig))
        p == IF r.compute_transition_band
             THEN check_filter_properties(curve, r.fs, r.pass_type, r.fc)
             ELSE [err |-> "ok", log |-> <<>>]
        nans == _remove_nans(h0["sig"]).sig_nans
        h1 == _remove_nans_memory(h0, "sig")
        c == convolve_same(k.kernel, h1["sig_removed"])
        h2 == convolve_memory(h1, k.kernel, "sig_removed")
        h3 == IF r.remove_edge_artifacts
              THEN _drop_edge_artifacts_memory(h2, "sig_filt", Len(k.kernel))
              ELSE h2
        n == _restore_nans(h3["sig_filt"], nans)
    IN  IF k.err # "ok" \/ p.err # "ok" THEN h0
        ELSE IF c.err # "ok" THEN h1
        ELSE IF n.err # "ok" THEN h3
        ELSE _restore_nans_memory(h3, "sig_filt", nans)

(* the buffers when filter_signal_iir returns or raises *)
filter_signal_iir_memory(r, curve) ==
    LET h0 == [b \in {"sig"} |-> r.sig]
        k == design_iir_filter(r.pass_type, r.fc, r.butterworth_order, r.fs)
        p == IF r.compute_transition_band
             THEN check_filter_properties(curve, r.fs, r.pass_type, r.fc)
             ELSE [err |-> "ok", log |-> <<>>]
        nans == _remove_nans(h0["sig"]).sig_nans
        h1 == _remove_nans_memory(h0, "sig")
        c == filtfilt(k.ncoef, h1["sig_removed"])
        h2 == filtfilt_memory(h1, k.ncoef, "sig_removed")
        n == _restore_nans(h2["sig_filt"], nans)
    IN  IF k.err # "ok" \/ p.err # "ok" THEN h0
        ELSE IF c.err # "ok" THEN h1
        ELSE IF n.err # "ok" THEN h2
        ELSE _restore_nans_memory(h2, "sig_filt", nans)

(* the buffers when filter_signal returns or raises *)
filter_signal_memory(r, curve) ==
    IF r.iir
    THEN IF _iir_checks(r.n_seconds, r.butterworth_order, r.remove_edge_artifacts).err # "ok"
         THEN [b \in {"sig"} |-> r.sig]
         ELSE filter_signal_iir_memory(r, curve)
    ELSE filter_signal_fir_memory(r, curve)

----------------------------------------------------------------------------
(* Input spaces *)

PassTypes == {"bandpass", "bandstop", "lowpass", "highpass", "notch"}
Freqs == 1..MaxFreq
FsInputs == {5, 8}
DbLevels == {-40, -20, -10, -3, 0}

SeqsUpTo(S, n) == UNION {[1..k -> S] : k \in 0..n}

FcInputs ==
    {Number(f) : f \in Freqs}
    \cup {Tuple(s) : s \in SeqsUpTo(Freqs, MaxFcLen)}
    \cup {List(s) : s \in SeqsUpTo(Freqs, MaxFcLen)}

FcWellTyped == {Number(f) : f \in Freqs} \cup {Tuple(s) : s \in [1..2 -> Freqs]}

Durations ==
    {None} \cup {Some([num |-> n, den |-> d]) : n \in 0..MaxSecNum, d \in 1..MaxSecDen}

Orders == {None} \cup {Some(n) : n \in 1..MaxOrder}

Signals == SeqsUpTo({NaN, Fin(1)}, MaxSigLen)
CleanSignals == {[i \in 1..n |-> Fin(1)] : n \in 0..MaxSigLen}
(* a designed filter passes some frequency: the response reaches -3 dB somewhere *)
Curves == {c \in [1..DbLen -> DbLevels] : \E i \in 1..DbLen : c[i] >= TransHigh}

BaseReq ==
    [sig |-> [i \in 1..MaxSigLen |-> Fin(1)], fs |-> 5,
     pass_type |-> "lowpass", fc |-> Number(1),
     n_cycles |-> 1, n_seconds |-> None, iir |-> FALSE, butterworth_order |-> Some(1),
     plot_freq_response |-> FALSE, return_kernel |-> FALSE,
     compute_transition_band |-> FALSE, remove_edge_artifacts |-> TRUE]

GoodCurve == [i \in 1..DbLen |-> IF i = 1 THEN 0 ELSE IF i = 2 THEN -10 ELSE -40]

----------------------------------------------------------------------------
(* Actions: one per public function *)

CheckFilterDefinition ==
    /\ pc = "call"
    /\ pc' = "done"
    /\ fn' = "check_filter_definition"
    /\ ret' = check_filter_definition(req.pass_type, req.fc)
    /\ UNCHANGED <<req, db>>

DesignFirFilter ==
    /\ pc = "call"
    /\ pc' = "done"
    /\ fn' = "design_fir_filter"
    /\ ret' = design_fir_filter(req.pass_type, req.fc, req.n_cycles, req.n_seconds,
                                req.fs, Len(req.sig))
    /\ UNCHANGED <<req, db>>

DesignIirFilter ==
    /\ pc = "call"
    /\ pc' = "done"
    /\ fn' = "design_iir_filter"
    /\ ret' = design_iir_filter(req.pass_type, req.fc, req.butterworth_order, req.fs)
    /\ UNCHANGED <<req, db>>

CheckFilterProperties ==
    /\ pc = "call"
    /\ pc' = "done"
    /\ fn' = "check_filter_properties"
    /\ ret' = check_filter_properties(db, req.fs, req.pass_type, req.fc)
    /\ UNCHANGED <<req, db>>

FilterSignal ==
    /\ pc = "call"
    /\ pc' = "done"
    /\ fn' = "filter_signal"
    /\ ret' = filter_signal(req, db)
    /\ req' = [req EXCEPT !.sig = filter_signal_memory(req, db)["sig"]]
    /\ UNCHANGED db

Start(requests, curves) ==
    /\ req \in requests
    /\ db \in curves
    /\ pc = "call"
    /\ fn = ""
    /\ ret = [err |-> "ok"]

----------------------------------------------------------------------------
(* filter_signal over signals with NaN gaps, FIR and IIR *)

FilterRequests ==
    {[BaseReq EXCEPT !.sig = s, !.n_seconds = d, !.iir = i, !.butterworth_order = o,
                     !.remove_edge_artifacts = e] :
        s \in Signals, d \in Durations, i \in BOOLEAN, o \in Orders, e \in BOOLEAN}

Init == Start(FilterRequests, {GoodCurve})
Next == FilterSignal
Spec == Init /\ [][Next]_vars

(* check_filter_definition over every shape of fc *)

DefinitionRequests ==
    {[BaseReq EXCEPT !.pass_type = p, !.fc = c] : p \in PassTypes, c \in FcInputs}

InitDefinition == Start(DefinitionRequests, {GoodCurve})
NextDefinition == CheckFilterDefinition
SpecDefinition == InitDefinition /\ [][NextDefinition]_vars

(* design_fir_filter and design_iir_filter over definitions, lengths and rates *)

DesignRequests ==
    {[BaseReq EXCEPT !.pass_type = p, !.fc = c, !.n_cycles = n, !.n_seconds = d,
                     !.fs = f, !.sig = s] :
        p \in PassTypes, c \in FcWellTyped, n \in 1..MaxCycles, d \in Durations,
        f \in FsInputs, s \in CleanSignals}

InitDesign == Start(DesignRequests, {GoodCurve})
NextDesign == DesignFirFilter \/ DesignIirFilter
SpecDesign == InitDesign /\ [][NextDesign]_vars

(* check_filter_properties, alone and inside filter_signal, over dB curves *)

ValidationRequests ==
    {[BaseReq EXCEPT !.pass_type = p[1], !.fc = p[2], !.compute_transition_band = c] :
        p \in {<<"bandpass", Tuple(<<1, 2>>)>>, <<"bandstop", Tuple(<<1, 2>>)>>,
               <<"lowpass", Number(1)>>, <<"highpass", Number(1)>>},
        c \in BOOLEAN}

InitValidation == Start(ValidationRequests, Curves)
NextValidation == CheckFilterProperties \/ FilterSignal
SpecValidation == InitValidation /\ [][NextValidation]_vars

(* the FIR path of filter_signal over every shape of definition, with the  *)
(* validation, the plot and the kernel asked for or not                    *)

FirPathFcs ==
    {Number(f) : f \in Freqs}
    \cup {Tuple(s) : s \in SeqsUpTo(Freqs, 2)}
    \cup {List(s) : s \in SeqsUpTo(Freqs, 2)}

FirPathRequests ==
    {[BaseReq EXCEPT !.pass_type = p, !.fc = c, !.n_seconds = d,
                     !.plot_freq_response = g, !.return_kernel = k,
                     !.compute_transition_band = t] :
        p \in PassTypes, c \in FirPathFcs, d \in Durations,
        g \in BOOLEAN, k \in BOOLEAN, t \in BOOLEAN}

InitFirPath == Start(FirPathRequests, {GoodCurve})
NextFirPath == FilterSignal
SpecFirPath == InitFirPath /\ [][NextFirPath]_vars

----------------------------------------------------------------------------
(* Properties of filter_signal (checked under Spec) *)

Returned == pc = "done" /\ fn = "filter_signal" /\ ret.err = "ok"
NanAt(x) == {i \in 1..Len(x) : isnan(x[i])}
KernelLen == Len(design_fir_filter(req.pass_type, req.fc, req.n_cycles, req.n_seconds,
                                   req.fs, Len(req.sig)).kernel)
DesignOk ==
    IF req.iir
    THEN /\ _iir_checks(req.n_seconds, req.butterworth_order,
                        req.remove_edge_artifacts).err = "ok"
         /\ design_iir_filter(req.pass_type, req.fc, req.butterworth_order,
                              req.fs).err = "ok"
    ELSE design_fir_filter(req.pass_type, req.fc, req.n_cycles, req.n_seconds,
                           req.fs, Len(req.sig)).err = "ok"
(* index i lies among the first or the last ceil(L/2) of n indices *)
EdgeIndex(i, n, L) == 2 * (i - 1) < L \/ 2 * (n - i) < L

(* C1: every call of filter_signal whose design succeeds returns a filtered *)
(* signal, and its length is the length of the input signal.                *)
C1_LengthInvariance ==
    (pc = "done" /\ fn = "filter_signal" /\ DesignOk)
        => (ret.err = "ok" /\ Len(ret.sig_filt) = Len(req.sig))

(* C2 as stated: with edge removal the FIR output is NaN exactly at the    *)
(* input's NaN positions and at the first and last ceil(L/2) indices of    *)
(* the output.                                                              *)
C2_NanExactlyGapsAndEdges ==
    (Returned /\ ~req.iir /\ req.remove_edge_artifacts)
        => NanAt(ret.sig_filt) =
              NanAt(req.sig)
              \cup {i \in 1..Len(ret.sig_filt) : EdgeIndex(i, Len(ret.sig_filt), KernelLen)}

(* the number of non-NaN input samples up to index i, and in all *)
ValidUpTo(i) == Cardinality({k \in 1..i : ~isnan(req.sig[k])})
ValidCount == ValidUpTo(Len(req.sig))

(* C2 amended: with edge removal the FIR output is NaN exactly at the      *)
(* input's NaN positions and at the positions of the first and the last    *)
(* ceil(L/2) non-NaN samples of the input.                                  *)
C2_NanExactlyGapsAndValidEdges ==
    (Returned /\ ~req.iir /\ req.remove_edge_artifacts)
        => /\ Len(ret.sig_filt) = Len(req.sig)
           /\ NanAt(ret.sig_filt) =
                 NanAt(req.sig)
                 \cup {i \in 1..Len(req.sig) :
                          ~isnan(req.sig[i]) /\ EdgeIndex(ValidUpTo(i), ValidCount, KernelLen)}

C2_Witness ==
    /\ Returned /\ ~req.iir /\ req.remove_edge_artifacts
    /\ isnan(req.sig[1]) /\ ~isnan(req.sig[Len(req.sig)])
    /\ KernelLen = 3
    /\ isnan(ret.sig_filt[3]) /\ ~isnan(ret.sig_filt[4])

(* C3: without edge removal (FIR with the flag off, IIR whatever the flag) *)
(* the output is NaN exactly at the input's NaN positions.                  *)
C3_NanExactlyGaps ==
    (Returned /\ (req.iir \/ ~req.remove_edge_artifacts))
        => /\ Len(ret.sig_filt) = Len(req.sig)
           /\ NanAt(ret.sig_filt) = NanAt(req.sig)

C3_Witness ==
    /\ Returned /\ req.iir /\ req.remove_edge_artifacts
    /\ NanAt(req.sig) # {}
    /\ \E i \in 1..Len(ret.sig_filt) : ~isnan(ret.sig_filt[i])

(* C4: after a successful FIR call with edge removal the first ceil(L/2)   *)
(* and the last ceil(L/2) samples of the output are NaN, wherever the      *)
(* input's gaps lie.                                                        *)
C4_EdgesAreNan ==
    (Returned /\ ~req.iir /\ req.remove_edge_artifacts)
        => \A i \in 1..Len(ret.sig_filt) :
              EdgeIndex(i, Len(ret.sig_filt), KernelLen) => isnan(ret.sig_filt[i])

C4_Witness ==
    /\ Returned /\ ~req.iir /\ req.remove_edge_artifacts
    /\ KernelLen = 3
    /\ \E i \in 3..(Len(req.sig) - 2) : isnan(req.sig[i])
    /\ \E i \in 1..Len(ret.sig_filt) : ~isnan(ret.sig_filt[i])

(* C9 as stated: an IIR request with n_seconds fails with IncompatibleOption *)
(* and an IIR request without an order fails with MissingOrder, before any   *)
(* design or filtering; with an order and no duration neither is raised.     *)
IirOptionLog == ret.log \in {<<>>, <<"warn:edge_artifacts">>} /\ ret.sig_filt = <<>>

C9_IirOptionErrors ==
    (pc = "done" /\ fn = "filter_signal" /\ req.iir)
        => /\ req.n_seconds # None => ret.err = "IncompatibleOption"
           /\ req.butterworth_order = None => ret.err = "MissingOrder"
           /\ ret.err \in {"IncompatibleOption", "MissingOrder"} => IirOptionLog
           /\ (req.n_seconds = None /\ req.butterworth_order # None)
                 => ret.err \notin {"IncompatibleOption", "MissingOrder"}

(* C9 amended: MissingOrder is raised for the requests without an order    *)
(* that give no n_seconds; a request with n_seconds fails with             *)
(* IncompatibleOption whether or not it has an order.                       *)
C9_IirOptionErrorsAmended ==
    (pc = "done" /\ fn = "filter_signal" /\ req.iir)
        => /\ req.n_seconds # None => ret.err = "IncompatibleOption"
           /\ (req.n_seconds = None /\ req.butterworth_order = None)
                 => ret.err = "MissingOrder"
           /\ ret.err \in {"IncompatibleOption", "MissingOrder"} => IirOptionLog
           /\ (req.n_seconds = None /\ req.butterworth_order # None)
                 => ret.err \notin {"IncompatibleOption", "MissingOrder"}

C9_Witness ==
    /\ pc = "done" /\ fn = "filter_signal" /\ req.iir
    /\ req.n_seconds # None /\ req.butterworth_order = None
    /\ ret.err = "IncompatibleOption"

----------------------------------------------------------------------------
(* Properties of design_fir_filter (checked under SpecDesign) *)

Designed == pc = "done" /\ fn = "design_fir_filter"
DefinitionOk == check_filter_definition(req.pass_type, req.fc).err = "ok"

(* the reference cutoff: the higher one for lowpass, the lower one otherwise *)
RefCutoff ==
    IF req.fc.kind = "number" THEN req.fc.v[1]
    ELSE IF req.pass_type = "lowpass" THEN req.fc.v[2] ELSE req.fc.v[1]
(* the length asked for is LengthNum / LengthDen samples *)
LengthNum == IF req.n_seconds # None THEN req.fs * req.n_seconds[1].num
             ELSE req.fs * req.n_cycles
LengthDen == IF req.n_seconds # None THEN req.n_seconds[1].den ELSE RefCutoff
(* n = ceil(LengthNum / LengthDen) *)
IsCeilLength(n) == LengthDen * (n - 1) < LengthNum /\ LengthNum <= LengthDen * n
(* L is n forced to the next odd integer *)
IsNextOdd(L, n) == L % 2 = 1 /\ n <= L /\ L <= n + 1

(* C5: the kernel of every successful FIR design has the length            *)
(* ceil(fs * n_seconds), or ceil(fs * n_cycles / f_ref) when no duration   *)
(* is given, forced to the next odd integer; so it is odd.                  *)
C5_FirLength ==
    (Designed /\ ret.err = "ok")
        => /\ Len(ret.kernel) % 2 = 1
           /\ \E n \in 0..Len(ret.kernel) : IsCeilLength(n) /\ IsNextOdd(Len(ret.kernel), n)

C5_Witness ==
    /\ Designed /\ ret.err = "ok"
    /\ req.pass_type = "lowpass" /\ req.fc = Tuple(<<1, 2>>) /\ req.n_seconds = None
    /\ req.fs = 8 /\ req.n_cycles = 1
    /\ Len(ret.kernel) = 5

(* C6: for a valid definition FIR design fails with FilterTooLong exactly  *)
(* when the odd-forced length is >= the signal length, and then no kernel  *)
(* construction was attempted.                                              *)
TooLong ==
    \E n \in 0..LengthNum :
        /\ IsCeilLength(n)
        /\ \E L \in n..(n + 1) : IsNextOdd(L, n) /\ L >= Len(req.sig)

C6_FilterTooLong ==
    (Designed /\ DefinitionOk)
        => /\ ret.err = "FilterTooLong" <=> TooLong
           /\ ret.err = "FilterTooLong"
                 => ret.kernel = <<>> /\ \A i \in 1..Len(ret.log) : ret.log[i] # "firwin"

C6_Witness ==
    /\ Designed /\ DefinitionOk /\ ret.err = "FilterTooLong"
    /\ req.n_seconds # None
    /\ \E n \in 0..LengthNum : IsCeilLength(n) /\ n % 2 = 0 /\ n + 1 = Len(req.sig)

(* C8: a lowpass request whose cutoff is at or above the Nyquist frequency *)
(* fails with InvalidFilterDefinition before kernel construction is        *)
(* attempted (stated for the requests that pass the length check, the ones *)
(* for which kernel construction can be reached).                          *)
C8_NyquistBoundary ==
    (Designed /\ DefinitionOk /\ ~TooLong
        /\ req.pass_type = "lowpass" /\ 2 * RefCutoff >= req.fs)
        => /\ ret.err = "InvalidFilterDefinition"
           /\ \A i \in 1..Len(ret.log) : ret.log[i] # "firwin"

----------------------------------------------------------------------------
(* Properties of check_filter_definition (checked under SpecDefinition) *)

TwoOrderedCutoffs ==
    req.fc.kind # "number" /\ Len(req.fc.v) = 2 /\ req.fc.v[1] < req.fc.v[2]

(* C7: check_filter_definition fails with InvalidFilterDefinition for an   *)
(* unrecognized pass_type and for a band filter whose fc is not exactly    *)
(* two ordered cutoffs; with two ordered cutoffs it returns them.          *)
C7_BandDefinition ==
    (pc = "done" /\ fn = "check_filter_definition")
        => /\ req.pass_type \notin {"bandpass", "bandstop", "lowpass", "highpass"}
                 => ret.err = "InvalidFilterDefinition"
           /\ (req.pass_type \in {"bandpass", "bandstop"} /\ ~TwoOrderedCutoffs)
                 => ret.err = "InvalidFilterDefinition"
           /\ (req.pass_type \in {"bandpass", "bandstop"} /\ TwoOrderedCutoffs)
                 => /\ ret.err = "ok"
                    /\ ret.f_lo = Some(req.fc.v[1])
                    /\ ret.f_hi = Some(req.fc.v[2])

----------------------------------------------------------------------------
(* Properties of check_filter_properties (checked under SpecValidation) *)

(* C10: check_filter_properties never raises, whatever the dB curve, and   *)
(* filter_signal returns the same filtered signal as with                   *)
(* compute_transition_band disabled.                                        *)
C10_AdvisoryOnly ==
    /\ (pc = "done" /\ fn = "check_filter_properties") => ret.err = "ok"
    /\ (pc = "done" /\ fn = "filter_signal")
          => LET plain == filter_signal(
                     [req EXCEPT !.compute_transition_band = FALSE], db)
             IN  ret.err = plain.err /\ ret.sig_filt = plain.sig_filt

----------------------------------------------------------------------------
(* Purity of filter_signal (checked under Spec) *)

(* C11: no call of filter_signal, returning or raising, changes the        *)
(* caller's input array: its values and its NaN positions are afterwards   *)
(* what they were before.                                                   *)
C11_InputUnchanged == [][req'.sig = req.sig]_vars

C11_Witness ==
    /\ Returned /\ ~req.iir /\ req.remove_edge_artifacts
    /\ NanAt(req.sig) # {}
    /\ \E i \in 1..Len(req.sig) : ~isnan(req.sig[i]) /\ isnan(ret.sig_filt[i])
    /\ LET h == filter_signal_memory(req, db)
       IN  isnan(h["sig_filt"][1]) /\ h["sig_restored"] = ret.sig_filt

----------------------------------------------------------------------------
(* Transition band (checked under SpecValidation) *)

Validated == pc = "done" /\ fn = "check_filter_properties"
Response == compute_frequency_response(db, req.fs)
MinDb == SetMin({Response.db[i] : i \in 1..Len(Response.db)})
InBand(x) == x > TransLow /\ x < TransHigh

(* C12: for a curve whose minimum lies below the low threshold, each       *)
(* successive pair of mask crossings encloses samples that all lie         *)
(* strictly between the two thresholds, and the reported transition        *)
(* bandwidth is the largest width of those pairs.  Stated for the calls    *)
(* that return; the calls that raise are C10's.                            *)
C12_TransitionBand ==
    (Validated /\ MinDb < TransLow /\ ret.err = "ok")
        => LET inds == TransitionInds(Response.db, TransLow, TransHigh)
               npairs == Len(inds) \div 2
           IN  /\ npairs >= 1
               /\ \A j \in 1..npairs :
                     \A i \in (inds[2 * j - 1] + 1)..inds[2 * j] : InBand(Response.db[i])
               /\ ret.transition_bw =
                     SetMax({Response.f_db[inds[2 * j]] - Response.f_db[inds[2 * j - 1]] :
                                j \in 1..npairs})

----------------------------------------------------------------------------
(* Early return of the validation (checked under SpecValidation) *)

Emitted(e, log) == \E i \in 1..Len(log) : log[i] = e

(* C13: when the minimum of the curve is at or above the low threshold,    *)
(* check_filter_properties emits the insufficient-attenuation advisory and *)
(* returns at once: no pass or transition bandwidth, no bandpass-edge or   *)
(* transition-too-wide advisory, nothing printed.  When the minimum is     *)
(* below the threshold, that advisory is not emitted.                      *)
C13_EarlyReturn ==
    Validated
        => IF MinDb >= TransLow
           THEN /\ ret.err = "ok"
                /\ ret.log = <<"warn:attenuation">>
                /\ DOMAIN ret = {"err", "log"}
           ELSE ~Emitted("warn:attenuation", ret.log)

C13_Witness ==
    /\ Validated /\ MinDb = TransLow
    /\ req.pass_type = "bandpass" /\ db[1] >= TransLow
    /\ TransitionInds(db, TransLow, TransHigh) # <<>>
    /\ ret.log = <<"warn:attenuation">>

----------------------------------------------------------------------------
(* One-sided filters (checked under SpecDefinition) *)

Defined == pc = "done" /\ fn = "check_filter_definition"
OneCutoff == req.fc.kind = "number"
CutoffPair == req.fc.kind = "tuple" /\ Len(req.fc.v) = 2

(* C14: for lowpass the result is (None, f_hi), f_hi being fc itself when  *)
(* fc is a number and fc[1] when it is a two-element tuple; for highpass   *)
(* it is (f_lo, None), f_lo being fc or fc[0]; any other cutoff for these  *)
(* two pass types fails with InvalidFilterDefinition.                      *)
C14_OneSidedDefinition ==
    (Defined /\ req.pass_type \in {"lowpass", "highpass"})
        => IF OneCutoff \/ CutoffPair
           THEN /\ ret.err = "ok"
                /\ req.pass_type = "lowpass"
                      => /\ ret.f_lo = None
                         /\ ret.f_hi = Some(req.fc.v[IF OneCutoff THEN 1 ELSE 2])
                /\ req.pass_type = "highpass"
                      => /\ ret.f_hi = None
                         /\ ret.f_lo = Some(req.fc.v[1])
           ELSE ret.err = "InvalidFilterDefinition"

----------------------------------------------------------------------------
(* Order of the FIR path (checked under SpecFirPath) *)

FirCall == pc = "done" /\ fn = "filter_signal" /\ ~req.iir

(* the place of an event in the order the claim gives *)
Stage(e) ==
    IF e = "check_filter_definition" THEN 1
    ELSE IF e = "_fir_checks" THEN 2
    ELSE IF e = "firwin" THEN 3
    ELSE IF e = "convolve" THEN 5
    ELSE IF e = "plot_frequency_response" THEN 6
    ELSE 4

FirStagesInOrder ==
    /\ ret.log # <<>> /\ ret.log[1] = "check_filter_definition"
    /\ \A i, j \in 1..Len(ret.log) : i < j => Stage(ret.log[i]) <= Stage(ret.log[j])
    /\ \A i, j \in 1..Len(ret.log) :
          (i < j /\ Stage(ret.log[i]) # 4) => ret.log[i] # ret.log[j]

FatalIsClean ==
    ret.err \in {"InvalidFilterDefinition", "FilterTooLong"}
        => /\ \A i \in 1..Len(ret.log) : Stage(ret.log[i]) <= 2
           /\ ret.kernel = None /\ ret.sig_filt = <<>>

(* the definition breaks the documented rules: an unknown pass type, a     *)
(* band filter without two ordered cutoffs, a one-sided filter whose fc is *)
(* neither a number nor a pair                                             *)
DefinitionInvalid ==
    \/ req.pass_type \notin {"bandpass", "bandstop", "lowpass", "highpass"}
    \/ req.pass_type \in {"bandpass", "bandstop"} /\ ~TwoOrderedCutoffs
    \/ req.pass_type \in {"lowpass", "highpass"} /\ ~(OneCutoff \/ CutoffPair)

(* with a duration given, the length does not depend on the cutoffs *)
DefinitionErrorFirst ==
    (DefinitionInvalid /\ req.n_seconds # None /\ TooLong)
        => ret.err = "InvalidFilterDefinition"

(* C15: an FIR call runs the definition check, the length check, the       *)
(* kernel construction, the validation, the convolution and the optional   *)
(* plot in that order; a call that fails with InvalidFilterDefinition or   *)
(* FilterTooLong has emitted no advisory, printed nothing, requested no    *)
(* plot and returned neither kernel nor signal; a call whose definition is *)
(* invalid and whose filter would be too long fails with                   *)
(* InvalidFilterDefinition.                                                *)
C15_FirOrdering ==
    FirCall => (FirStagesInOrder /\ FatalIsClean /\ DefinitionErrorFirst)

====
